---- MODULE Spec2Model ----
(***************************************************************************)
(* A model of LuxmedApi (luxmed_api.py): a synchronous client that, for    *)
(* every public operation, fetches an access token (POST /token) and then  *)
(* issues one GET whose JSON body it normalises.                           *)
(*                                                                         *)
(* Python strings that the code slices, parses or formats (UUID strings,   *)
(* ISO timestamps, dates) are sequences of one-character strings.  Other   *)
(* strings are TLA+ strings.  Python's None is the empty tuple None, and a *)
(* present optional argument v is the one-element tuple <<v>>.             *)
(***************************************************************************)
EXTENDS Integers, Sequences, FiniteSets, TLC

VARIABLES pc, op, uuids, sent, received, outcome, lastAuth, earlierTokens, nOps, nTokenRequests

vars == <<pc, op, uuids, sent, received, outcome, lastAuth, earlierTokens, nOps, nTokenRequests>>

(* ------------------------------ bounds --------------------------------- *)

\* number of public operations invoked on the client in one behaviour
MaxOps == 2
\* total number of elements in the Cities, Services and Clinics arrays
MaxItems == 2
\* number of day-groups in a search response
MaxDays == 2
\* total number of slots in a search response
MaxSlots == 2

(* --------------------------- small helpers ----------------------------- *)

None == <<>>

Min(a, b) == IF a <= b THEN a ELSE b

\* Python slicing s[:n]
Take(s, n) == SubSeq(s, 1, Min(n, Len(s)))

Repeat(c, n) == [i \in 1..n |-> c]

HexDigits == <<"0","1","2","3","4","5","6","7","8","9","a","b","c","d","e","f">>

DecDigits == <<"0","1","2","3","4","5","6","7","8","9">>

\* value of a decimal digit character
DigitValue(c) == (CHOOSE i \in 1..10 : DecDigits[i] = c) - 1

RECURSIVE ParseInt(_)
\* int() of a string of decimal digits
ParseInt(s) ==
    IF s = <<>> THEN 0
    ELSE 10 * ParseInt(SubSeq(s, 1, Len(s) - 1)) + DigitValue(s[Len(s)])

RECURSIVE ZeroPad(_, _)
\* "%0<width>d" % n
ZeroPad(n, width) ==
    IF width = 0 THEN <<>>
    ELSE ZeroPad(n \div 10, width - 1) \o <<DecDigits[(n % 10) + 1]>>

(* ------------------------------ uuid ----------------------------------- *)

\* the values uuid.uuid4() can return: a random draw, so any of them, any time
UuidPool == {1, 2}

\* str(uuid.uuid4()): 8-4-4-4-12 hexadecimal digits, 36 characters; the drawn
\* value sits in the first digit, the version digit is 4, the variant digit 8
uuid_str(u) ==
    <<HexDigits[u + 1]>> \o Repeat("0", 7) \o <<"-">> \o Repeat("0", 4) \o <<"-">>
        \o <<"4">> \o Repeat("0", 3) \o <<"-">> \o <<"8">> \o Repeat("0", 3)
        \o <<"-">> \o Repeat("0", 12)

(* ----------------------------- constants ------------------------------- *)

_config == [username |-> "user", password |-> "secret", language |-> "pl"]

_CUSTOM_USER_AGENT == "Patient Portal; 3.20.5; uuid; Android; 23; uuid"

TOKEN_URL == "/token"

FILTER_URL == "/visits/available-terms/reservation-filter"

TERMS_URL == "/visits/available-terms"

(* --------------------------- the client -------------------------------- *)

\* mutation: the exception carries the status code instead of the body
_validate_response_status_detail(response) ==
    IF response.status_code # 200
    THEN <<[exc |-> "LuxmedApiException",
            detail |-> [status_code |-> response.status_code]]>>
    ELSE None

\* the exception _validate_response raises, or None when the status is 200
_validate_response(response) ==
    IF response.status_code # 200
    THEN <<[exc |-> "LuxmedApiException", detail |-> response.json]>>
    ELSE None

\* mutation: the account identifier is not truncated
_prepare_authentication_body_untruncated(u1, u2) ==
    [username   |-> _config.username,
     password   |-> _config.password,
     grant_type |-> "password",
     account_id |-> uuid_str(u1),
     client_id  |-> uuid_str(u2)]

_prepare_authentication_body(u1, u2) ==
    [username   |-> _config.username,
     password   |-> _config.password,
     grant_type |-> "password",
     account_id |-> Take(uuid_str(u1), 35),
     client_id  |-> uuid_str(u2)]

\* mutation: the token request is a GET
_get_access_token_by_get(u1, u2) ==
    [method  |-> "GET",
     url     |-> TOKEN_URL,
     headers |-> [Api_Version |-> "2.0"],
     data    |-> _prepare_authentication_body(u1, u2)]

\* the request _get_access_token posts
_get_access_token(u1, u2) ==
    [method  |-> "POST",
     url     |-> TOKEN_URL,
     headers |-> [Api_Version |-> "2.0",
                  accept_language |-> _config.language,
                  Content_Type |-> "application/x-www-form-urlencoded",
                  accept_encoding |-> "gzip",
                  x_api_client_identifier |-> "Android",
                  User_Agent |-> "okhttp/3.11.0",
                  Custom_User_Agent |-> _CUSTOM_USER_AGENT],
     data    |-> _prepare_authentication_body(u1, u2)]

\* mutation: a token obtained by an earlier operation is reused
_prepare_headers_cached(api_version, access_token) ==
    [Authorization |-> "Bearer " \o (IF earlierTokens # {}
                                     THEN CHOOSE t \in earlierTokens : TRUE
                                     ELSE access_token),
     Api_Version |-> api_version]

\* the headers of a data request, given the token _get_access_token returned
_prepare_headers(api_version, access_token) ==
    [Authorization |-> "Bearer " \o access_token,
     Api_Version |-> api_version,
     accept_language |-> _config.language,
     Content_Type |-> "application/json; charset=UTF-8",
     accept_encoding |-> "gzip",
     x_api_client_identifier |-> "Android",
     User_Agent |-> "okhttp/3.11.0",
     Custom_User_Agent |-> _CUSTOM_USER_AGENT]

\* mutation: the discovery request carries the search endpoint's version
_send_request_for_filters_v2(params, access_token) ==
    [method  |-> "GET",
     url     |-> FILTER_URL,
     headers |-> _prepare_headers("2.0", access_token),
     params  |-> params]

\* the GET _send_request_for_filters issues
_send_request_for_filters(params, access_token) ==
    [method  |-> "GET",
     url     |-> FILTER_URL,
     headers |-> _prepare_headers("3.0", access_token),
     params  |-> params]

\* the params dictionary get_visits builds
visits_params(city_id, service_id, from_date, to_date, clinic_id, doctor_id) ==
    ("filter.cityId" :> city_id) @@ ("filter.serviceId" :> service_id)
        @@ ("filter.clinicId" :> clinic_id) @@ ("filter.fromDate" :> from_date)
        @@ ("filter.toDate" :> to_date)

\* the GET get_visits issues
get_visits_request(args, access_token) ==
    [method  |-> "GET",
     url     |-> TERMS_URL,
     headers |-> _prepare_headers("2.0", access_token),
     params  |-> visits_params(args.city_id, args.service_id, args.from_date,
                               args.to_date, args.clinic_id, args.doctor_id)]

(* --------------------------- normalisation ----------------------------- *)

RECURSIVE id_name_pairs_prepend(_)
\* mutation: each pair is put in front of the list instead of appended
id_name_pairs_prepend(items) ==
    IF items = <<>> THEN <<>>
    ELSE id_name_pairs_prepend(Tail(items)) \o <<(<<items[1].Id, items[1].Name>>)>>

RECURSIVE id_name_pairs(_)
\* the loop of get_cities, get_services and get_clinics: append (Id, Name)
id_name_pairs(items) ==
    IF items = <<>> THEN <<>>
    ELSE <<(<<items[1].Id, items[1].Name>>)>> \o id_name_pairs(Tail(items))

\* datetime.fromisoformat on "YYYY-MM-DDTHH:MM:SS"
fromisoformat(s) ==
    [year   |-> ParseInt(SubSeq(s, 1, 4)),
     month  |-> ParseInt(SubSeq(s, 6, 7)),
     day    |-> ParseInt(SubSeq(s, 9, 10)),
     hour   |-> ParseInt(SubSeq(s, 12, 13)),
     minute |-> ParseInt(SubSeq(s, 15, 16)),
     second |-> ParseInt(SubSeq(s, 18, 19))]

\* datetime.date()
date_of(dt) == [year |-> dt.year, month |-> dt.month, day |-> dt.day]

\* mutation: month and day are not zero-padded to two digits
date_str_unpadded(d) ==
    ZeroPad(d.year, 4) \o <<"-">> \o ZeroPad(d.month, 1) \o <<"-">> \o ZeroPad(d.day, 1)

\* str(date): "%04d-%02d-%02d"
date_str(d) ==
    ZeroPad(d.year, 4) \o <<"-">> \o ZeroPad(d.month, 2) \o <<"-">> \o ZeroPad(d.day, 2)

RECURSIVE current_day_visits_swapped(_)
\* mutation: the doctor's and the clinic's names are exchanged
current_day_visits_swapped(slots) ==
    IF slots = <<>> THEN <<>>
    ELSE <<[time        |-> slots[1].FormattedVisitHour,
            doctor_name |-> slots[1].Clinic.Name,
            clinic_name |-> slots[1].Doctor.Name]>>
         \o current_day_visits_swapped(Tail(slots))

RECURSIVE current_day_visits(_)
\* the inner loop of get_visits
current_day_visits(slots) ==
    IF slots = <<>> THEN <<>>
    ELSE <<[time        |-> slots[1].FormattedVisitHour,
            doctor_name |-> slots[1].Doctor.Name,
            clinic_name |-> slots[1].Clinic.Name]>>
         \o current_day_visits(Tail(slots))

RECURSIVE found_visits(_)
\* the outer loop of get_visits
found_visits(normal_visits) ==
    IF normal_visits = <<>> THEN <<>>
    ELSE <<[date   |-> date_str(date_of(fromisoformat(
                           normal_visits[1].VisitDate.StartDateTime))),
            visits |-> current_day_visits(
                           normal_visits[1].AvailableVisitsTermPresentation)]>>
         \o found_visits(Tail(normal_visits))

\* the array a discovery operation reads from the response body
filter_key(name, body) ==
    CASE name = "get_cities"   -> body.Cities
      [] name = "get_services" -> body.Services
      [] name = "get_clinics"  -> body.Clinics

(* ----------------------- what the upstream sends ----------------------- *)

Tokens == {"tokA", "tokB"}

TokenResponses ==
    [status_code : {200}, json : [access_token : Tokens, token_type : {"bearer"}]]
        \cup [status_code : {401}, json : [error : {"invalid_grant"}]]

ErrorResponses == [status_code : {500}, json : [Message : {"An error has occurred."}]]

RECURSIVE SeqsUpTo(_, _)
\* the sequences over S of length at most n
SeqsUpTo(S, n) ==
    IF n = 0 THEN {<<>>}
    ELSE LET shorter == SeqsUpTo(S, n - 1)
         IN  shorter \cup {Append(s, e) : s \in shorter, e \in S}

Entities == {[Id |-> 1, Name |-> "Alfa"], [Id |-> 2, Name |-> "Beta"]}

FilterBodies ==
    {b \in [Cities   : SeqsUpTo(Entities, MaxItems),
            Services : SeqsUpTo(Entities, MaxItems),
            Clinics  : SeqsUpTo(Entities, MaxItems)] :
        Len(b.Cities) + Len(b.Services) + Len(b.Clinics) <= MaxItems}

FilterResponses == [status_code : {200}, json : FilterBodies]

StartDateTimes ==
    {<<"2","0","2","4","-","0","3","-","0","5","T","0","9",":","0","0",":","0","0">>,
     <<"2","0","2","4","-","1","2","-","3","1","T","2","3",":","3","0",":","0","0">>}

Slots ==
    {[FormattedVisitHour |-> "09:00", Doctor |-> [Name |-> "Dr A"], Clinic |-> [Name |-> "Clinic X"]],
     [FormattedVisitHour |-> "23:30", Doctor |-> [Name |-> "Dr B"], Clinic |-> [Name |-> "Clinic Y"]]}

DayGroups ==
    [VisitDate : [StartDateTime : StartDateTimes],
     AvailableVisitsTermPresentation : SeqsUpTo(Slots, MaxSlots)]

RECURSIVE SlotCount(_)
SlotCount(groups) ==
    IF groups = <<>> THEN 0
    ELSE Len(groups[1].AvailableVisitsTermPresentation) + SlotCount(Tail(groups))

VisitsBodies ==
    [AgregateAvailableVisitTerms :
        {g \in SeqsUpTo(DayGroups, MaxDays) : SlotCount(g) <= MaxSlots}]

VisitsResponses == [status_code : {200}, json : VisitsBodies]

CityIds == {1}

ServiceIds == {2}

\* the optional filters of get_visits: each one given in one call, left out in the other
OptionalFilters ==
    {[clinic_id |-> None, doctor_id |-> <<7>>], [clinic_id |-> <<5>>, doctor_id |-> None]}

(* ------------------------------ actions -------------------------------- *)

Init ==
    /\ pc = "idle"
    /\ op = [name |-> "none"]
    /\ uuids = <<>>
    /\ sent = <<>>
    /\ received = <<>>
    /\ outcome = [kind |-> "none"]
    /\ lastAuth = None
    /\ earlierTokens = {}
    /\ nOps = 0
    /\ nTokenRequests = 0

\* a public operation is called: it runs up to the POST of _get_access_token
Call(o, u1, u2) ==
    /\ pc = "idle"
    /\ nOps < MaxOps
    /\ op' = o
    /\ uuids' = <<u1, u2>>
    /\ sent' = <<_get_access_token(u1, u2)>>
    /\ received' = <<>>
    /\ outcome' = [kind |-> "none"]
    /\ lastAuth' = IF sent = <<>> THEN None ELSE <<sent[1].data>>
    /\ earlierTokens' =
          IF received # <<>> /\ received[1].status_code = 200
          THEN earlierTokens \cup {received[1].json.access_token}
          ELSE earlierTokens
    /\ nOps' = nOps + 1
    /\ nTokenRequests' = nTokenRequests + 1
    /\ pc' = "token"

get_cities ==
    \E u1, u2 \in UuidPool :
        Call([name |-> "get_cities", params |-> <<>>], u1, u2)

get_services ==
    \E u1, u2 \in UuidPool, city_id \in CityIds :
        Call([name |-> "get_services", params |-> ("filter.cityId" :> city_id)], u1, u2)

get_clinics ==
    \E u1, u2 \in UuidPool, city_id \in CityIds :
        Call([name |-> "get_clinics", params |-> ("filter.cityId" :> city_id)], u1, u2)

get_visits ==
    \E u1, u2 \in UuidPool, city_id \in CityIds, service_id \in ServiceIds,
       optional \in OptionalFilters :
        Call([name |-> "get_visits",
              args |-> [city_id |-> city_id, service_id |-> service_id,
                        from_date |-> "2024-03-01", to_date |-> "2024-03-02",
                        clinic_id |-> optional.clinic_id,
                        doctor_id |-> optional.doctor_id]], u1, u2)

\* mutation: the failure is swallowed and an empty list returned
Raise_swallowed(e) ==
    /\ outcome' = [kind |-> "return", value |-> <<>>]
    /\ pc' = "idle"

\* the exception propagates out of the public operation
Raise(e) ==
    /\ outcome' = [kind |-> "raise", exc |-> e.exc, detail |-> e.detail]
    /\ pc' = "idle"

\* /token answers: _get_access_token validates, _prepare_headers builds the
\* headers and the operation issues its GET
token_response ==
    /\ pc = "token"
    /\ \E response \in TokenResponses :
        /\ received' = <<response>>
        /\ IF _validate_response(response) # None
           THEN /\ Raise(_validate_response(response)[1])
                /\ sent' = sent
           ELSE /\ sent' = Append(sent,
                      IF op.name = "get_visits"
                      THEN get_visits_request(op.args, response.json.access_token)
                      ELSE _send_request_for_filters(op.params, response.json.access_token))
                /\ pc' = "data"
                /\ outcome' = outcome
    /\ UNCHANGED <<op, uuids, lastAuth, earlierTokens, nOps, nTokenRequests>>

\* the reservation-filter endpoint answers a discovery operation
filters_response ==
    /\ pc = "data"
    /\ op.name # "get_visits"
    /\ \E response \in FilterResponses \cup ErrorResponses :
        /\ received' = Append(received, response)
        /\ IF _validate_response(response) # None
           THEN Raise(_validate_response(response)[1])
           ELSE /\ outcome' = [kind |-> "return",
                               value |-> id_name_pairs(filter_key(op.name, response.json))]
                /\ pc' = "idle"
    /\ UNCHANGED <<op, uuids, sent, lastAuth, earlierTokens, nOps, nTokenRequests>>

\* the available-terms endpoint answers get_visits
visits_response ==
    /\ pc = "data"
    /\ op.name = "get_visits"
    /\ \E response \in VisitsResponses \cup ErrorResponses :
        /\ received' = Append(received, response)
        /\ IF _validate_response(response) # None
           THEN Raise(_validate_response(response)[1])
           ELSE /\ outcome' = [kind |-> "return",
                               value |-> found_visits(
                                   response.json.AgregateAvailableVisitTerms)]
                /\ pc' = "idle"
    /\ UNCHANGED <<op, uuids, sent, lastAuth, earlierTokens, nOps, nTokenRequests>>

Next ==
    \/ get_cities
    \/ get_services
    \/ get_clinics
    \/ get_visits
    \/ token_response
    \/ filters_response
    \/ visits_response

Spec == Init /\ [][Next]_vars

(* ------------------------------ claims --------------------------------- *)

\* the current invocation has finished (returned or raised)
Done == pc = "idle" /\ nOps > 0

\* the token request of the current invocation was answered with 200
TokenOK == received # <<>> /\ received[1].status_code = 200

IsTokenRequest(r) == r.method = "POST" /\ r.url = TOKEN_URL

Discovery == {"get_cities", "get_services", "get_clinics"}

Returned == Done /\ outcome.kind = "return"

\* C1 as stated: every finished invocation has issued exactly two requests,
\* POST /token and then one GET.
C1_AlwaysTwoRequests ==
    Done => /\ Len(sent) = 2
            /\ IsTokenRequest(sent[1])
            /\ sent[2].method = "GET"

\* C1 as amended: every invocation first issues POST /token and never more than
\* two requests; the second is a GET, issued exactly when the token request
\* was answered with 200, and a request is issued only after the one before it
\* was answered.  An invocation whose token request fails issues one request.
C1_TokenThenOneGet ==
    nOps > 0 =>
        /\ Len(sent) \in {1, 2}
        /\ IsTokenRequest(sent[1])
        /\ Len(sent) = 2 <=> TokenOK
        /\ Len(sent) = 2 => sent[2].method = "GET" /\ sent[2].url # TOKEN_URL
        /\ Len(received) \in {Len(sent) - 1, Len(sent)}
        /\ Done => Len(received) = Len(sent)

C1_Witness == Returned /\ Len(sent) = 2 /\ Len(received) = 2

C3_ApiVersionPerEndpoint ==
    \A i \in 1..Len(sent) :
        /\ sent[i].url = FILTER_URL => sent[i].headers.Api_Version = "3.0"
        /\ sent[i].url = TERMS_URL => sent[i].headers.Api_Version = "2.0"

C3_Witness ==
    /\ nOps = 2
    /\ Len(sent) = 2
    /\ sent[2].url = FILTER_URL
    /\ sent[2].headers.Api_Version = "3.0"

AllFilterKeys ==
    {"filter.cityId", "filter.serviceId", "filter.clinicId", "filter.doctorId",
     "filter.fromDate", "filter.toDate"}

\* C4: the search request of get_visits passes all six filters, the doctor id
\* and the clinic id with the value the caller gave (None when unset).
C4_AllSixFilters ==
    \A i \in 1..Len(sent) :
        sent[i].url = TERMS_URL =>
            /\ DOMAIN sent[i].params = AllFilterKeys
            /\ sent[i].params["filter.clinicId"] = op.args.clinic_id
            /\ sent[i].params["filter.doctorId"] = op.args.doctor_id

\* the upstream array a discovery operation is documented to return
UpstreamArray ==
    IF op.name = "get_cities" THEN received[2].json.Cities
    ELSE IF op.name = "get_services" THEN received[2].json.Services
    ELSE received[2].json.Clinics

\* C5: a successful discovery call returns as many pairs as the upstream array
\* has elements, the i-th pair being (Id, Name) of the i-th element.
C5_PairsByPosition ==
    (Returned /\ op.name \in Discovery) =>
        /\ Len(outcome.value) = Len(UpstreamArray)
        /\ \A i \in 1..Len(UpstreamArray) :
              outcome.value[i] = <<UpstreamArray[i].Id, UpstreamArray[i].Name>>

C5_Witness ==
    /\ Returned
    /\ op.name = "get_services"
    /\ Len(outcome.value) = 2
    /\ outcome.value[1] # outcome.value[2]
    /\ received[2].json.Cities = <<>>

UpstreamDays == received[2].json.AgregateAvailableVisitTerms

\* C6: a successful search returns one entry per upstream day-group, in order,
\* whose date is the first ten characters (YYYY-MM-DD) of StartDateTime.
C6_OneEntryPerGroup ==
    (Returned /\ op.name = "get_visits") =>
        /\ Len(outcome.value) = Len(UpstreamDays)
        /\ \A i \in 1..Len(UpstreamDays) :
              outcome.value[i].date =
                  SubSeq(UpstreamDays[i].VisitDate.StartDateTime, 1, 10)

C6_Witness ==
    /\ Returned
    /\ op.name = "get_visits"
    /\ Len(outcome.value) = 2
    /\ outcome.value[1].date = outcome.value[2].date
    /\ outcome.value[1].visits = <<>>

\* C7: the visits of the i-th entry are the slots of the i-th day-group, in
\* order, with time, doctor_name and clinic_name read from the j-th slot.
C7_SlotsByPosition ==
    (Returned /\ op.name = "get_visits") =>
        \A i \in 1..Len(UpstreamDays) :
            LET slots == UpstreamDays[i].AvailableVisitsTermPresentation
                visits == outcome.value[i].visits
            IN  /\ Len(visits) = Len(slots)
                /\ \A j \in 1..Len(slots) :
                      /\ visits[j].time = slots[j].FormattedVisitHour
                      /\ visits[j].doctor_name = slots[j].Doctor.Name
                      /\ visits[j].clinic_name = slots[j].Clinic.Name

C7_Witness ==
    /\ Returned
    /\ op.name = "get_visits"
    /\ Len(outcome.value) = 2
    /\ Len(outcome.value[1].visits) = 1
    /\ Len(outcome.value[2].visits) = 1
    /\ outcome.value[1].visits # outcome.value[2].visits

\* C8 as stated: account_id has at most 35 characters, and two consecutive
\* authentications never send the same account_id or the same client_id.
C8_NeverTheSameIds ==
    nOps > 0 =>
        /\ Len(sent[1].data.account_id) <= 35
        /\ lastAuth # None =>
              /\ sent[1].data.account_id # lastAuth[1].account_id
              /\ sent[1].data.client_id # lastAuth[1].client_id

\* C8 as amended: account_id is the first 35 characters of the string of a
\* UUID drawn for this authentication and client_id is the 36-character
\* string of a second UUID drawn for it; nothing is kept from the
\* authentication before, whose values differ unless the random draws coincide.
C8_IdsDrawnPerAuthentication ==
    nOps > 0 =>
        /\ Len(sent[1].data.account_id) = 35
        /\ sent[1].data.account_id = SubSeq(uuid_str(uuids[1]), 1, 35)
        /\ Len(sent[1].data.client_id) = 36
        /\ sent[1].data.client_id = uuid_str(uuids[2])

C8_Witness ==
    /\ nOps = 2
    /\ lastAuth # None
    /\ Len(sent[1].data.account_id) = 35
    /\ sent[1].data.account_id # lastAuth[1].account_id
    /\ sent[1].data.client_id # lastAuth[1].client_id

\* C9: the bearer token of every data request is the access_token answered to
\* the token request of the same invocation, also when an earlier invocation
\* obtained another one, and there are as many token requests as invocations.
C9_FreshTokenPerOperation ==
    /\ nTokenRequests = nOps
    /\ \A i \in 1..Len(sent) :
          sent[i].method = "GET" =>
              /\ TokenOK
              /\ sent[i].headers.Authorization =
                     "Bearer " \o received[1].json.access_token
              /\ \A t \in earlierTokens \ {received[1].json.access_token} :
                     sent[i].headers.Authorization # "Bearer " \o t

C9_Witness ==
    /\ nOps = 2
    /\ Len(sent) = 2
    /\ earlierTokens # {}
    /\ received[1].json.access_token \notin earlierTokens

\* C10: a failed token request ends the invocation without a data GET, a
\* failed data GET ends it without a returned list, no request is repeated,
\* and the next invocation starts with a new token request.
C10_FailureIsTerminal ==
    /\ [](nOps > 0 =>
            /\ (received # <<>> /\ received[1].status_code # 200) =>
                  /\ Done
                  /\ Len(sent) = 1
                  /\ outcome.kind = "raise"
            /\ (Len(received) = 2 /\ received[2].status_code # 200) =>
                  /\ Done
                  /\ outcome.kind = "raise"
                  /\ "value" \notin DOMAIN outcome
            /\ Len(sent) <= 2
            /\ Len(sent) = 2 => sent[1].url # sent[2].url)
    /\ [][(outcome.kind = "raise" /\ nOps' # nOps) =>
            /\ Len(sent') = 1
            /\ IsTokenRequest(sent'[1])
            /\ nTokenRequests' = nTokenRequests + 1
            /\ received' = <<>>]_vars

C10_Witness ==
    /\ nOps = 2
    /\ Done
    /\ Len(sent) = 2
    /\ received[2].status_code = 500
    /\ outcome.kind = "raise"

====
